---- MODULE Spec2Model ----
(***************************************************************************)
(* Model of stream_executor/gpu/gpu_graph.cc (src/unnamed/part_000): the    *)
(* RAII owners of gpu graphs and executable gpu graphs, the process-wide    *)
(* allocation counters, and the create / capture / instantiate / update /   *)
(* launch operations.  The device driver (GpuDriver) is an external         *)
(* collaborator: each driver call nondeterministically succeeds or fails.   *)
(***************************************************************************)
EXTENDS Integers, Sequences, FiniteSets, TLC

\* ---------------------------------------------------------------- bounds
NumThreads == 2     \* caller threads
MaxGraphs == 2      \* graph handles the driver hands out
MaxExecs == 2       \* executable graph handles the driver hands out
MaxObjs == 3        \* OwnedGpuGraphExec objects ever constructed
MaxLaunches == 3    \* driver GraphLaunch calls per executable
MaxNodes == 3       \* nodes inserted into one graph

Threads == 1..NumThreads
Streams == {"stream"}
\* operations a capture body issues on the stream: none, or one
BodyOps == {0, 1}
\* the kernel launches of the callers: a kernel with its ThreadDim and
\* BlockDim (x, y, z)
KernelLaunches ==
  {[kernel |-> "add", threads |-> <<1, 1, 1>>, blocks |-> <<2, 1, 1>>],
   [kernel |-> "mul", threads |-> <<2, 1, 1>>, blocks |-> <<1, 1, 1>>]}
\* DeviceMemoryBase buffers: an opaque address and a size in bytes
Buffers == {[opaque |-> 16, size |-> 4], [opaque |-> 32, size |-> 8]}

\* A null GpuGraphHandle / GpuGraphExecHandle (an empty unique_ptr).
NullHandle == 0

\* Verbosity levels of the VLOG statements of the file.
VlogLaunchUpdate == 3
VlogLifetime == 5
VlogLevels == {0, VlogLaunchUpdate, VlogLifetime}

\* ---------------------------------------------------------------- status
OkStatus == [code |-> "OK", msg |-> <<>>]
DriverCodes == {"Internal", "Unknown"}
DriverErrors == {[code |-> c, msg |-> <<"driver: failed">>] : c \in DriverCodes}
DriverStatuses == {OkStatus} \cup DriverErrors
BodyErrors == {[code |-> "Cancelled", msg |-> <<"body: failed">>]}
BodyStatuses == {OkStatus} \cup BodyErrors
NoStatus == [code |-> "none", msg |-> <<>>]

\* tsl::errors::Internal(prefix, message): the code Internal and the string
\* concatenation of the arguments.
InternalError(prefix, message) == [code |-> "Internal", msg |-> <<prefix>> \o message]

\* whether message m occurs inside the (concatenated) message of status st
Includes(st, m) ==
  \E i \in 0..(Len(st.msg) - Len(m)) :
     \A j \in 1..Len(m) : st.msg[i + j] = m[j]

VARIABLES
  vlog,                          \* the process' verbose-logging level
  debug_dir,                     \* XLA_GPU_GRAPH_DEBUG_DIRECTORY is set
  allocated_gpu_graph_execs_,    \* std::atomic<size_t>
  alive_gpu_graph_execs_,        \* std::atomic<size_t>
  graphs,                        \* driver graph handles: owner, destroy calls
  execs,                         \* exec handles: driver calls and notifications made
  objs,                          \* OwnedGpuGraphExec objects ever constructed
  capturing,                     \* per stream: in capture mode
  pc,                            \* per thread: position inside a call
  frame,                         \* per thread: locals of the call in progress
  ret,                           \* what the last completed call returned
  aborted                        \* a CHECK failed: the process is gone

vars == <<vlog, debug_dir, allocated_gpu_graph_execs_, alive_gpu_graph_execs_,
          graphs, execs, objs, capturing, pc, frame, ret, aborted>>

\* size_t values are read as unsigned words: -1 stands for the all-ones word
\* (what fetch_sub(1) leaves in a counter that was 0), so +1 and -1 are the
\* integer operations and only the comparison needs the unsigned reading.
ULeq(a, b) == IF a < 0 THEN (b < 0 /\ a <= b) ELSE (b < 0 \/ a <= b)

\* VLOG(level) << ...: the streamed operands are evaluated only when the
\* level is enabled (the macro is `!VLOG_IS_ON(level) ? (void)0 : LogMessage`).
VlogIsOn(level) == vlog >= level

NoFrame == [op |-> "none", stream |-> "none", graph |-> NullHandle,
            exec |-> NullHandle, captured |-> NoStatus, body_calls |-> 0,
            end_calls |-> 0, ops |-> 0]

\* The arguments a caller gives to AddKernelNode / AddMemcpyD2DNode and the
\* arguments GpuDriver::GraphAdd...Node receives; none outside those calls.
NoNodeArgs == [graph |-> NullHandle, deps |-> {}, threads |-> <<>>,
               blocks |-> <<>>, kernel |-> "none", dst |-> <<>>, src |-> <<>>]
NoNodeCall == [kind |-> "none", graph |-> NullHandle, deps |-> {},
               name |-> "none", func |-> <<>>, grid |-> <<>>, block |-> <<>>,
               dst |-> 0, src |-> 0, size |-> 0]

NoRet == [op |-> "none", status |-> NoStatus, graph |-> NullHandle,
          obj |-> 0, value |-> FALSE, begin |-> NoStatus, body |-> NoStatus,
          end |-> NoStatus, body_calls |-> 0, end_calls |-> 0, dot_calls |-> 0,
          stream |-> "none", driver |-> NoStatus, result |-> "none",
          driver_calls |-> 0, unique |-> FALSE, printed |-> NoStatus,
          ops |-> 0, node |-> 0, args |-> NoNodeArgs, call |-> NoNodeCall,
          notify_calls |-> 0, alive |-> 0]

Init ==
  /\ vlog \in VlogLevels
  /\ debug_dir \in BOOLEAN
  /\ allocated_gpu_graph_execs_ = 0
  /\ alive_gpu_graph_execs_ = 0
  /\ graphs = <<>>
  /\ execs = <<>>
  /\ objs = <<>>
  /\ capturing = [s \in Streams |-> FALSE]
  /\ pc = [t \in Threads |-> "idle"]
  /\ frame = [t \in Threads |-> NoFrame]
  /\ ret = NoRet
  /\ aborted = FALSE

\* ------------------------------------------------------------ RAII helpers

Idle(t) == pc[t] = "idle" /\ ~aborted

\* calls in progress that will still ask the driver for / construct something
InFlight(places) == Cardinality({t \in Threads : pc[t] \in places})

\* GpuGraphSupport::NotifyGraphExecCreated, first statement:
\* alive_gpu_graph_execs_.fetch_add(1, relaxed).
NotifyGraphExecCreated_alive ==
  alive_gpu_graph_execs_' = alive_gpu_graph_execs_ + 1

\* Mutant: the identity is taken from the alive counter.
NotifyGraphExecCreated_result_Alive == alive_gpu_graph_execs_

\* Mutant: the identity is the counter's value after the addition.
NotifyGraphExecCreated_result_AfterAdd == allocated_gpu_graph_execs_ + 1

\* The value NotifyGraphExecCreated returns: what fetch_add read from
\* allocated_gpu_graph_execs_ before adding.
NotifyGraphExecCreated_result == allocated_gpu_graph_execs_

\* GpuGraphSupport::NotifyGraphExecCreated, second statement:
\* allocated_gpu_graph_execs_.fetch_add(1, relaxed).
NotifyGraphExecCreated_allocated ==
  allocated_gpu_graph_execs_' = allocated_gpu_graph_execs_ + 1

\* Mutant: the destroy notification also takes one off the allocated counter.
NotifyGraphExecDestroyed_AlsoAllocated ==
  /\ alive_gpu_graph_execs_' = alive_gpu_graph_execs_ - 1
  /\ allocated_gpu_graph_execs_' = allocated_gpu_graph_execs_ - 1

\* Mutant: the value fetch_sub read is returned as it is.
NotifyGraphExecDestroyed_result_Before == alive_gpu_graph_execs_

\* The value NotifyGraphExecDestroyed returns: what fetch_sub read from
\* alive_gpu_graph_execs_ before subtracting, minus one.
NotifyGraphExecDestroyed_result == alive_gpu_graph_execs_ - 1

\* GpuGraphSupport::NotifyGraphExecDestroyed:
\* alive_gpu_graph_execs_.fetch_sub(1, relaxed); allocated is not touched.
NotifyGraphExecDestroyed ==
  /\ alive_gpu_graph_execs_' = alive_gpu_graph_execs_ - 1
  /\ allocated_gpu_graph_execs_' = allocated_gpu_graph_execs_

\* Mutant: the deleter drops the handle without the driver call.
DestroyGraph_Leaks(h, st) ==
  /\ graphs' = [graphs EXCEPT ![h].owner = "none"]
  /\ aborted' = aborted

\* Mutant: a failed GpuDriver::DestroyGraph is logged and the program goes on.
DestroyGraph_Continues(h, st) ==
  IF st = OkStatus
  THEN /\ graphs' = [graphs EXCEPT ![h].destroys = @ + 1, ![h].owner = "none"]
       /\ aborted' = aborted
  ELSE /\ graphs' = [graphs EXCEPT ![h].failed = TRUE, ![h].owner = "none"]
       /\ aborted' = aborted

\* GpuGraphSupport::DestroyGraph::operator(): the deleter of OwnedGpuGraph.
\* st is the status of GpuDriver::DestroyGraph; CHECK(st.ok()) aborts.
DestroyGraph(h, st) ==
  IF st = OkStatus
  THEN /\ graphs' = [graphs EXCEPT ![h].destroys = @ + 1, ![h].owner = "none"]
       /\ aborted' = aborted
  ELSE /\ graphs' = [graphs EXCEPT ![h].failed = TRUE]
       /\ aborted' = TRUE

\* GpuGraphSupport::DestroyGraphExec::operator(): the deleter of
\* OwnedGpuGraphExec, applied to the exec handles es.
DestroyGraphExec(es, e, st) ==
  IF st = OkStatus
  THEN /\ execs' = [es EXCEPT ![e].destroys = @ + 1]
       /\ aborted' = aborted
  ELSE /\ execs' = [es EXCEPT ![e].failed = TRUE]
       /\ aborted' = TRUE

\* Mutant: the destructor without its `if (*this)` test.
DtorNotifies_NoEmptyCheck(obj) == VlogIsOn(VlogLifetime)

\* ~OwnedGpuGraphExec: `if (*this) VLOG(5) << ... NotifyGraphExecDestroyed()`.
\* The call is an operand of the VLOG statement.
DtorNotifies(obj) == obj.exec # NullHandle /\ VlogIsOn(VlogLifetime)

\* OwnedGpuGraphExec::Update, `VLOG(3) << ... << num_updates_++`.
UpdateCounts(obj) ==
  [obj EXCEPT !.num_updates_ = IF VlogIsOn(VlogLaunchUpdate) THEN @ + 1 ELSE @,
              !.num_launches_ = 0]

\* OwnedGpuGraphExec::Launch, `VLOG(3) << ... << ++num_launches_`.
LaunchCounts(obj) ==
  [obj EXCEPT !.num_launches_ = IF VlogIsOn(VlogLaunchUpdate) THEN @ + 1 ELSE @]

\* ---------------------------------------------------------- owner objects

\* OwnedGpuGraphExec(id, exec): owns exec, counters start at 0.
NewOwnedGpuGraphExec(id, e) ==
  [exec |-> e, id_ |-> id, num_launches_ |-> 0, num_updates_ |-> 0,
   live |-> TRUE, origin |-> "instantiate"]

\* Move construction of an OwnedGpuGraphExec from objs[o]: the new object
\* takes the handle and the scalar fields, the source is left empty.
Move(t, o) ==
  /\ Idle(t)
  /\ objs[o].live
  /\ Len(objs) + InFlight({"instantiate_alive", "instantiate_allocated"}) < MaxObjs
  /\ objs' = Append([objs EXCEPT ![o].exec = NullHandle],
                    [objs[o] EXCEPT !.origin = "move"])
  /\ ret' = [NoRet EXCEPT !.op = "Move"]
  /\ UNCHANGED <<vlog, debug_dir, allocated_gpu_graph_execs_,
                 alive_gpu_graph_execs_, graphs, execs, capturing, pc, frame,
                 aborted>>

\* OwnedGpuGraphExec::~OwnedGpuGraphExec followed by the unique_ptr base
\* destructor, which runs the DestroyGraphExec deleter on a non-null handle.
OwnedGpuGraphExec_dtor(t, o, st) ==
  /\ Idle(t)
  /\ objs[o].live
  /\ objs' = [objs EXCEPT ![o].live = FALSE]
  /\ IF DtorNotifies(objs[o])
     THEN NotifyGraphExecDestroyed
     ELSE UNCHANGED <<alive_gpu_graph_execs_, allocated_gpu_graph_execs_>>
  /\ IF objs[o].exec # NullHandle
     THEN DestroyGraphExec(
            IF DtorNotifies(objs[o])
            THEN [execs EXCEPT ![objs[o].exec].notified = @ + 1] ELSE execs,
            objs[o].exec, st)
     ELSE st = OkStatus /\ UNCHANGED <<execs, aborted>>
  /\ ret' = IF DtorNotifies(objs[o])
            THEN [NoRet EXCEPT !.op = "~OwnedGpuGraphExec",
                               !.notify_calls = 1,
                               !.alive = NotifyGraphExecDestroyed_result]
            ELSE [NoRet EXCEPT !.op = "~OwnedGpuGraphExec"]
  /\ UNCHANGED <<vlog, debug_dir, graphs, capturing, pc, frame>>

\* ~OwnedGpuGraph of a graph the caller holds: the DestroyGraph deleter.
OwnedGpuGraph_dtor(t, g, st) ==
  /\ Idle(t)
  /\ graphs[g].owner = "owned"
  /\ DestroyGraph(g, st)
  /\ ret' = [NoRet EXCEPT !.op = "~OwnedGpuGraph"]
  /\ UNCHANGED <<vlog, debug_dir, allocated_gpu_graph_execs_,
                 alive_gpu_graph_execs_, execs, objs, capturing, pc, frame>>

\* ------------------------------------------------------- OwnedGpuGraphExec

NewGraph(owner) ==
  [owner |-> owner, destroys |-> 0, failed |-> FALSE, nodes |-> 0,
   edges |-> {}]
NewExec == [destroys |-> 0, launches |-> 0, updates |-> 0, notified |-> 0,
            stream |-> "none", failed |-> FALSE]

UpdateResults == {"kSuccess", "kError", "kTopologyChanged"}

\* Mutant: only the driver's status is tested, result.result is ignored.
UpdateStatus_IgnoresResult(st, result) ==
  IF st # OkStatus
  THEN InternalError("Failed to update gpu graph: ", st.msg)
  ELSE OkStatus

\* The status OwnedGpuGraphExec::Update returns for the driver's status st
\* and result.result.
UpdateStatus(st, result) ==
  IF st # OkStatus \/ result # "kSuccess"
  THEN InternalError("Failed to update gpu graph: ", st.msg)
  ELSE OkStatus

\* Mutant: a failed update falls back to instantiating the new graph into a
\* fresh executable that replaces the old one.
Update_FallsBack(t, o, g, st, result, dst) ==
  /\ Idle(t)
  /\ objs[o].live /\ objs[o].exec # NullHandle
  /\ graphs[g].owner = "owned"
  /\ IF UpdateStatus(st, result) = OkStatus
     THEN /\ objs' = [objs EXCEPT ![o] = UpdateCounts(@)]
          /\ execs' = [execs EXCEPT ![objs[o].exec].updates = @ + 1]
     ELSE /\ objs' = [objs EXCEPT ![o] =
                        [UpdateCounts(@) EXCEPT !.exec = Len(execs) + 1]]
          /\ execs' = Append([execs EXCEPT ![objs[o].exec].updates = @ + 1,
                                           ![objs[o].exec].destroys = @ + 1],
                             NewExec)
  /\ DestroyGraph(g, dst)
  /\ ret' = [NoRet EXCEPT !.op = "Update", !.obj = o, !.graph = g,
                          !.driver = st, !.result = result, !.driver_calls = 1,
                          !.status = OkStatus]
  /\ UNCHANGED <<vlog, debug_dir, allocated_gpu_graph_execs_,
                 alive_gpu_graph_execs_, capturing, pc, frame>>

\* OwnedGpuGraphExec::Update(OwnedGpuGraph graph): the by-value parameter is
\* destroyed when the call returns (dst: the status of its DestroyGraph).
Update(t, o, g, st, result, dst) ==
  /\ Idle(t)
  /\ objs[o].live /\ objs[o].exec # NullHandle
  /\ graphs[g].owner = "owned"
  /\ objs' = [objs EXCEPT ![o] = UpdateCounts(@)]
  /\ execs' = [execs EXCEPT ![objs[o].exec].updates = @ + 1]
  /\ DestroyGraph(g, dst)
  /\ ret' = [NoRet EXCEPT !.op = "Update", !.obj = o, !.graph = g,
                          !.driver = st, !.result = result, !.driver_calls = 1,
                          !.status = UpdateStatus(st, result)]
  /\ UNCHANGED <<vlog, debug_dir, allocated_gpu_graph_execs_,
                 alive_gpu_graph_execs_, capturing, pc, frame>>

\* Mutant: a failed launch is tried once more.
GraphLaunchCalls_Retries(st) == IF st = OkStatus THEN 1 ELSE 2

\* The GpuDriver::GraphLaunch calls one Launch makes when the driver answers
\* st: the single call of the return statement.
GraphLaunchCalls(st) == 1

\* Mutant: a launch failure is reported as an Internal error of this layer.
LaunchStatus_Reinterprets(st) ==
  IF st = OkStatus THEN st
  ELSE InternalError("Failed to launch gpu graph: ", st.msg)

\* The status Launch returns when GpuDriver::GraphLaunch returned st.
LaunchStatus(st) == st

\* OwnedGpuGraphExec::Launch(stream): returns GpuDriver::GraphLaunch's status.
Launch(t, o, s, st) ==
  /\ Idle(t)
  /\ objs[o].live /\ objs[o].exec # NullHandle
  /\ execs[objs[o].exec].launches < MaxLaunches
  /\ objs' = [objs EXCEPT ![o] = LaunchCounts(@)]
  /\ execs' = [execs EXCEPT ![objs[o].exec].launches = @ + GraphLaunchCalls(st),
                            ![objs[o].exec].stream = s]
  /\ ret' = [NoRet EXCEPT !.op = "Launch", !.obj = o, !.stream = s,
                          !.driver = st, !.driver_calls = GraphLaunchCalls(st),
                          !.status = LaunchStatus(st)]
  /\ UNCHANGED <<vlog, debug_dir, allocated_gpu_graph_execs_,
                 alive_gpu_graph_execs_, graphs, capturing, pc, frame, aborted>>

\* ------------------------------------------------------- GPU graph helpers

\* Mutant: the handle is wrapped before the driver's status is looked at.
CreateGpuGraph_WrapsOnFailure(t, st) ==
  /\ Idle(t)
  /\ Len(graphs) < MaxGraphs
  /\ graphs' = Append(graphs, NewGraph("owned"))
  /\ ret' = [NoRet EXCEPT !.op = "CreateGpuGraph", !.driver = st,
                          !.status = st,
                          !.graph = IF st = OkStatus THEN Len(graphs) + 1
                                    ELSE NullHandle]
  /\ UNCHANGED <<vlog, debug_dir, allocated_gpu_graph_execs_,
                 alive_gpu_graph_execs_, execs, objs, capturing, pc, frame,
                 aborted>>

\* CreateGpuGraph: TF_RETURN_IF_ERROR(GpuDriver::CreateGraph(&graph));
\* return OwnedGpuGraph(graph).
CreateGpuGraph(t, st) ==
  /\ Idle(t)
  /\ IF st = OkStatus
     THEN /\ Len(graphs) < MaxGraphs
          /\ graphs' = Append(graphs, NewGraph("owned"))
          /\ ret' = [NoRet EXCEPT !.op = "CreateGpuGraph", !.driver = st,
                                  !.status = OkStatus, !.graph = Len(graphs) + 1]
     ELSE /\ graphs' = graphs
          /\ ret' = [NoRet EXCEPT !.op = "CreateGpuGraph", !.driver = st,
                                  !.status = st]
  /\ UNCHANGED <<vlog, debug_dir, allocated_gpu_graph_execs_,
                 alive_gpu_graph_execs_, execs, objs, capturing, pc, frame,
                 aborted>>

\* Mutant: a failed StreamBeginCapture is still followed by StreamEndCapture.
CaptureGpuGraph_Begin_EndsAnyway(t, s, st) ==
  /\ Idle(t)
  /\ capturing[s] => st # OkStatus
  /\ IF st = OkStatus
     THEN /\ capturing' = [capturing EXCEPT ![s] = TRUE]
          /\ pc' = [pc EXCEPT ![t] = "capture_body"]
          /\ frame' = [frame EXCEPT ![t] =
                         [NoFrame EXCEPT !.op = "CaptureGpuGraph", !.stream = s]]
          /\ ret' = ret
     ELSE /\ ret' = [NoRet EXCEPT !.op = "CaptureGpuGraph",
                                  !.stream = s, !.status = st, !.begin = st,
                                  !.end = OkStatus, !.end_calls = 1]
          /\ UNCHANGED <<capturing, pc, frame>>
  /\ UNCHANGED <<vlog, debug_dir, allocated_gpu_graph_execs_,
                 alive_gpu_graph_execs_, graphs, execs, objs, aborted>>

\* CaptureGpuGraph up to GpuDriver::StreamBeginCapture(gpu_stream,
\* kThreadLocal); the driver refuses a stream that is already capturing.
CaptureGpuGraph_Begin(t, s, st) ==
  /\ Idle(t)
  /\ capturing[s] => st # OkStatus
  /\ IF st = OkStatus
     THEN /\ capturing' = [capturing EXCEPT ![s] = TRUE]
          /\ pc' = [pc EXCEPT ![t] = "capture_body"]
          /\ frame' = [frame EXCEPT ![t] =
                         [NoFrame EXCEPT !.op = "CaptureGpuGraph", !.stream = s]]
          /\ ret' = ret
     ELSE /\ ret' = [NoRet EXCEPT !.op = "CaptureGpuGraph",
                                  !.stream = s, !.status = st, !.begin = st]
          /\ UNCHANGED <<capturing, pc, frame>>
  /\ UNCHANGED <<vlog, debug_dir, allocated_gpu_graph_execs_,
                 alive_gpu_graph_execs_, graphs, execs, objs, aborted>>

\* Mutant: a failed body returns at once, before StreamEndCapture.
CaptureGpuGraph_Body_ReturnsEarly(t, captured, ops) ==
  /\ pc[t] = "capture_body" /\ ~aborted
  /\ IF captured = OkStatus
     THEN /\ frame' = [frame EXCEPT ![t].captured = captured,
                                    ![t].body_calls = @ + 1,
                                    ![t].ops = ops]
          /\ pc' = [pc EXCEPT ![t] = "capture_end"]
          /\ ret' = ret
     ELSE /\ frame' = [frame EXCEPT ![t] = NoFrame]
          /\ pc' = [pc EXCEPT ![t] = "idle"]
          /\ ret' = [NoRet EXCEPT !.op = "CaptureGpuGraph",
                        !.stream = frame[t].stream, !.begin = OkStatus,
                        !.body = captured, !.body_calls = 1, !.ops = ops,
                        !.status = InternalError("failed to capture gpu graph: ",
                                                 captured.msg)]
  /\ UNCHANGED <<vlog, debug_dir, allocated_gpu_graph_execs_,
                 alive_gpu_graph_execs_, graphs, execs, objs, capturing,
                 aborted>>

\* `auto captured = capture();`: the caller's capture body runs once; it
\* issues ops operations on the capturing stream and returns captured.
CaptureGpuGraph_Body(t, captured, ops) ==
  /\ pc[t] = "capture_body" /\ ~aborted
  /\ frame' = [frame EXCEPT ![t].captured = captured, ![t].body_calls = @ + 1,
                            ![t].ops = ops]
  /\ pc' = [pc EXCEPT ![t] = "capture_end"]
  /\ UNCHANGED <<vlog, debug_dir, allocated_gpu_graph_execs_,
                 alive_gpu_graph_execs_, graphs, execs, objs, capturing, ret,
                 aborted>>

\* Mutant: the Internal error leaves out the body's message.
CaptureResult_DropsDetail(captured, h) ==
  IF captured # OkStatus
  THEN [status |-> InternalError("failed to capture gpu graph: ", <<>>),
        graph |-> NullHandle]
  ELSE [status |-> OkStatus, graph |-> h]

\* What CaptureGpuGraph returns once StreamEndCapture returned OK with handle
\* h: the Internal error for a failed body, else OwnedGpuGraph(graph).
CaptureResult(captured, h) ==
  IF captured # OkStatus
  THEN [status |-> InternalError("failed to capture gpu graph: ", captured.msg),
        graph |-> NullHandle]
  ELSE [status |-> OkStatus, graph |-> h]

\* Mutant: the body's failure is reported before the status of
\* StreamEndCapture is looked at.
EndCaptureFailure_BodyFirst(st, captured) ==
  IF captured # OkStatus
  THEN InternalError("failed to capture gpu graph: ", captured.msg)
  ELSE st

\* What CaptureGpuGraph returns when StreamEndCapture returned the error st:
\* TF_RETURN_IF_ERROR returns st before `captured` is looked at.
EndCaptureFailure(st, captured) == st

\* Mutant: a name that could not be made unique does not stop the export.
DebugDotPrinted_IgnoresUnique(unique) == debug_dir

\* Whether GpuDriver::GraphDebugDotPrint is called: the environment variable
\* is set and CreateUniqueFileName succeeded.
DebugDotPrinted(unique) == debug_dir /\ unique

\* Mutant: a failed dot export becomes the result of the capture.
DebugDotStatus_Propagates(status, printed) ==
  IF printed \in DriverErrors THEN printed ELSE status

\* The status CaptureGpuGraph returns after the debugging block, given the
\* status it had before: `printed.IgnoreError()` drops the export's status
\* and the failure to create a file name only logs a warning.
DebugDotStatus(status, printed) == status

\* CaptureGpuGraph from GpuDriver::StreamEndCapture to the return.  st: the
\* status of StreamEndCapture; left: whether a failed StreamEndCapture left
\* the stream capturing; unique: the result of CreateUniqueFileName; printed:
\* the status of GpuDriver::GraphDebugDotPrint when it is called.
CaptureGpuGraph_End(t, st, left, unique, printed) ==
  /\ pc[t] = "capture_end" /\ ~aborted
  /\ pc' = [pc EXCEPT ![t] = "idle"]
  /\ frame' = [frame EXCEPT ![t] = NoFrame]
  /\ LET f == frame[t]
         h == Len(graphs) + 1
         base == [NoRet EXCEPT !.op = "CaptureGpuGraph",
                               !.stream = f.stream, !.begin = OkStatus,
                               !.body = f.captured, !.end = st,
                               !.body_calls = f.body_calls,
                               !.end_calls = f.end_calls + 1,
                               !.ops = f.ops]
     IN IF st # OkStatus
        THEN /\ capturing' = [capturing EXCEPT ![f.stream] = left]
             /\ unique = FALSE /\ printed = NoStatus
             /\ graphs' = graphs
             /\ ret' = [base EXCEPT !.status = EndCaptureFailure(st, f.captured)]
        ELSE /\ left = FALSE
             /\ Len(graphs) < MaxGraphs
             /\ capturing' = [capturing EXCEPT ![f.stream] = FALSE]
             /\ LET r == CaptureResult(f.captured, h)
                IN /\ graphs' = Append(graphs,
                          [NewGraph(IF r.graph = h THEN "owned" ELSE "dropped")
                             EXCEPT !.nodes = f.ops])
                   /\ IF r.status = OkStatus
                      THEN /\ unique => debug_dir
                           /\ IF DebugDotPrinted(unique)
                              THEN printed \in DriverStatuses
                              ELSE printed = NoStatus
                           /\ ret' = [base EXCEPT
                                        !.status = DebugDotStatus(r.status, printed),
                                        !.graph = r.graph,
                                        !.unique = unique,
                                        !.printed = printed,
                                        !.dot_calls =
                                           IF DebugDotPrinted(unique) THEN 1 ELSE 0]
                      ELSE /\ unique = FALSE /\ printed = NoStatus
                           /\ ret' = [base EXCEPT !.status = r.status,
                                                  !.graph = r.graph]
  /\ UNCHANGED <<vlog, debug_dir, allocated_gpu_graph_execs_,
                 alive_gpu_graph_execs_, execs, objs, aborted>>

\* Mutant: a graph without nodes is refused.
InstantiateStatus_RejectsEmpty(g, st) ==
  IF graphs[g].nodes = 0
  THEN InternalError("empty gpu graph", <<>>)
  ELSE st

\* The status of InstantiateGpuGraph for graph g when the driver's
\* GraphInstantiate returned st: TF_RETURN_IF_ERROR passes the driver's
\* status on, whatever the graph holds.
InstantiateStatus(g, st) == st

\* Mutant: the creation is notified before the driver is asked, so a failed
\* instantiation has already counted.
InstantiateGpuGraph_Call_NotifiesFirst(t, g, st, dst) ==
  /\ Idle(t)
  /\ graphs[g].owner = "owned"
  /\ IF st = OkStatus
     THEN /\ dst = OkStatus
          /\ Len(execs) < MaxExecs
          /\ Len(objs) + InFlight({"instantiate_alive", "instantiate_allocated"})
               < MaxObjs
          /\ execs' = Append(execs, NewExec)
          /\ graphs' = [graphs EXCEPT ![g].owner = "parameter"]
          /\ pc' = [pc EXCEPT ![t] = "instantiate_alive"]
          /\ frame' = [frame EXCEPT ![t] =
                         [NoFrame EXCEPT !.op = "InstantiateGpuGraph",
                                         !.graph = g, !.exec = Len(execs) + 1]]
          /\ UNCHANGED <<ret, aborted, allocated_gpu_graph_execs_,
                         alive_gpu_graph_execs_>>
     ELSE /\ DestroyGraph(g, dst)
          /\ NotifyGraphExecCreated_alive
          /\ NotifyGraphExecCreated_allocated
          /\ ret' = [NoRet EXCEPT !.op = "InstantiateGpuGraph", !.graph = g,
                                  !.driver = st, !.status = st]
          /\ UNCHANGED <<execs, pc, frame>>
  /\ UNCHANGED <<vlog, debug_dir, objs, capturing>>

\* InstantiateGpuGraph(OwnedGpuGraph graph) up to
\* TF_RETURN_IF_ERROR(GpuDriver::GraphInstantiate(&exec, graph.get(), flags)).
\* On failure the by-value parameter is destroyed (dst) as the call returns.
InstantiateGpuGraph_Call(t, g, st, dst) ==
  /\ Idle(t)
  /\ graphs[g].owner = "owned"
  /\ IF InstantiateStatus(g, st) = OkStatus
     THEN /\ dst = OkStatus
          /\ Len(execs) < MaxExecs
          /\ Len(objs) + InFlight({"instantiate_alive", "instantiate_allocated"})
               < MaxObjs
          /\ execs' = Append(execs, NewExec)
          /\ graphs' = [graphs EXCEPT ![g].owner = "parameter"]
          /\ pc' = [pc EXCEPT ![t] = "instantiate_alive"]
          /\ frame' = [frame EXCEPT ![t] =
                         [NoFrame EXCEPT !.op = "InstantiateGpuGraph",
                                         !.graph = g, !.exec = Len(execs) + 1]]
          /\ UNCHANGED <<ret, aborted>>
     ELSE /\ DestroyGraph(g, dst)
          /\ ret' = [NoRet EXCEPT !.op = "InstantiateGpuGraph", !.graph = g,
                                  !.driver = st,
                                  !.status = InstantiateStatus(g, st)]
          /\ UNCHANGED <<execs, pc, frame>>
  /\ UNCHANGED <<vlog, debug_dir, allocated_gpu_graph_execs_,
                 alive_gpu_graph_execs_, objs, capturing>>

\* InstantiateGpuGraph inside NotifyGraphExecCreated: the first fetch_add.
InstantiateGpuGraph_NotifyAlive(t) ==
  /\ pc[t] = "instantiate_alive" /\ ~aborted
  /\ NotifyGraphExecCreated_alive
  /\ pc' = [pc EXCEPT ![t] = "instantiate_allocated"]
  /\ UNCHANGED <<vlog, debug_dir, allocated_gpu_graph_execs_, graphs, execs,
                 objs, capturing, frame, ret, aborted>>

\* InstantiateGpuGraph from the second fetch_add of NotifyGraphExecCreated to
\* `return OwnedGpuGraphExec(id, exec)`; the parameter graph is destroyed
\* (dst) as the call returns.
InstantiateGpuGraph_Return(t, dst) ==
  /\ pc[t] = "instantiate_allocated" /\ ~aborted
  /\ NotifyGraphExecCreated_allocated
  /\ objs' = Append(objs, NewOwnedGpuGraphExec(NotifyGraphExecCreated_result,
                                               frame[t].exec))
  /\ DestroyGraph(frame[t].graph, dst)
  /\ pc' = [pc EXCEPT ![t] = "idle"]
  /\ frame' = [frame EXCEPT ![t] = NoFrame]
  /\ ret' = [NoRet EXCEPT !.op = "InstantiateGpuGraph",
                          !.graph = frame[t].graph, !.driver = OkStatus,
                          !.status = OkStatus, !.obj = Len(objs) + 1]
  /\ UNCHANGED <<vlog, debug_dir, alive_gpu_graph_execs_, execs, capturing>>

\* `gpu_kernel->AsGpuFunctionHandle()`: the device function of a kernel.
AsGpuFunctionHandle(kernel) == <<"function", kernel>>

\* Mutant: the new node is also ordered after the node inserted last.
KernelNodeCall_ChainsToLast(g, deps, threads, blocks, kernel) ==
  [NoNodeCall EXCEPT !.kind = "kernel", !.graph = g,
                     !.deps = deps \cup (1..graphs[g].nodes \ 1..(graphs[g].nodes - 1)),
                     !.name = kernel, !.func = AsGpuFunctionHandle(kernel),
                     !.grid = blocks, !.block = threads]

\* The arguments of GpuDriver::GraphAddKernelNode: graph, deps, kernel.name(),
\* gpu_func, blocks.x/y/z as the grid, threads.x/y/z as the block.
KernelNodeCall(g, deps, threads, blocks, kernel) ==
  [NoNodeCall EXCEPT !.kind = "kernel", !.graph = g, !.deps = deps,
                     !.name = kernel, !.func = AsGpuFunctionHandle(kernel),
                     !.grid = blocks, !.block = threads]

\* `AsDevicePtr(mem)`: the opaque address of a buffer.
AsDevicePtr(mem) == mem.opaque

\* The arguments of GpuDriver::GraphAddMemcpyD2DNode: graph, deps, the two
\* device pointers and dst.size().
MemcpyD2DNodeCall(g, deps, dst, src) ==
  [NoNodeCall EXCEPT !.kind = "memcpy", !.graph = g, !.deps = deps,
                     !.dst = AsDevicePtr(dst), !.src = AsDevicePtr(src),
                     !.size = dst.size]

\* The driver inserts the node its call describes into call.graph, with one
\* edge from each node of call.deps; the new node's handle is its position.
GraphAddNode(call) ==
  [graphs EXCEPT ![call.graph].nodes = @ + 1,
                 ![call.graph].edges =
                     @ \cup {<<d, graphs[call.graph].nodes + 1>> : d \in call.deps}]

\* The common part of AddKernelNode and AddMemcpyD2DNode: the driver call,
\* TF_RETURN_IF_ERROR, `return node`.
AddNode(t, op, args, call, st) ==
  /\ Idle(t)
  /\ graphs[args.graph].owner = "owned"
  /\ args.deps \subseteq 1..graphs[args.graph].nodes
  /\ IF st = OkStatus
     THEN /\ graphs[args.graph].nodes < MaxNodes
          /\ graphs' = GraphAddNode(call)
          /\ ret' = [NoRet EXCEPT !.op = op, !.driver = st, !.status = st,
                                  !.graph = args.graph, !.args = args,
                                  !.call = call,
                                  !.node = graphs[call.graph].nodes + 1]
     ELSE /\ graphs' = graphs
          /\ ret' = [NoRet EXCEPT !.op = op, !.driver = st, !.status = st,
                                  !.graph = args.graph, !.args = args,
                                  !.call = call]
  /\ UNCHANGED <<vlog, debug_dir, allocated_gpu_graph_execs_,
                 alive_gpu_graph_execs_, execs, objs, capturing, pc, frame,
                 aborted>>

\* AddKernelNode(graph, deps, threads, blocks, kernel, args).
AddKernelNode(t, g, deps, threads, blocks, kernel, st) ==
  AddNode(t, "AddKernelNode",
          [NoNodeArgs EXCEPT !.graph = g, !.deps = deps, !.threads = threads,
                             !.blocks = blocks, !.kernel = kernel],
          KernelNodeCall(g, deps, threads, blocks, kernel), st)

\* AddMemcpyD2DNode(context, graph, deps, dst, src).
AddMemcpyD2DNode(t, g, deps, dst, src, st) ==
  AddNode(t, "AddMemcpyD2DNode",
          [NoNodeArgs EXCEPT !.graph = g, !.deps = deps, !.dst = dst,
                             !.src = src],
          MemcpyD2DNodeCall(g, deps, dst, src), st)

\* Mutant: the query ends the capture it observes.
IsStreamCapturing_EndsCapture(t, s, st) ==
  /\ Idle(t)
  /\ ret' = [NoRet EXCEPT !.op = "IsStreamCapturing",
                          !.stream = s, !.status = st, !.driver = st,
                          !.value = (st = OkStatus /\ capturing[s])]
  /\ capturing' = [capturing EXCEPT ![s] = FALSE]
  /\ UNCHANGED <<vlog, debug_dir, allocated_gpu_graph_execs_,
                 alive_gpu_graph_execs_, graphs, execs, objs, pc, frame,
                 aborted>>

\* IsStreamCapturing: GpuDriver::StreamIsCapturing's answer, unchanged.
IsStreamCapturing(t, s, st) ==
  /\ Idle(t)
  /\ ret' = [NoRet EXCEPT !.op = "IsStreamCapturing",
                          !.stream = s, !.status = st, !.driver = st,
                          !.value = (st = OkStatus /\ capturing[s])]
  /\ UNCHANGED <<vlog, debug_dir, allocated_gpu_graph_execs_,
                 alive_gpu_graph_execs_, graphs, execs, objs, capturing, pc,
                 frame, aborted>>

\* ------------------------------------------------------------ specification

\* Graphs reach the callers through CreateGpuGraph and CaptureGpuGraph.
CreateActions(T) ==
  \/ \E t \in T, st \in DriverStatuses : CreateGpuGraph(t, st)
  \/ \E t \in T, g \in DOMAIN graphs, st \in DriverStatuses :
        OwnedGpuGraph_dtor(t, g, st)

CaptureActions(T) ==
  \/ \E t \in T, s \in Streams, st \in DriverStatuses :
        CaptureGpuGraph_Begin(t, s, st)
  \/ \E t \in T, b \in BodyStatuses, ops \in BodyOps :
        CaptureGpuGraph_Body(t, b, ops)
  \/ \E t \in T, st \in DriverStatuses, left \in BOOLEAN, unique \in BOOLEAN,
        printed \in DriverStatuses \cup {NoStatus} :
        CaptureGpuGraph_End(t, st, left, unique, printed)
  \/ \E t \in T, s \in Streams, st \in DriverStatuses :
        IsStreamCapturing(t, s, st)

NodeActions(T) ==
  \/ \E t \in T, g \in DOMAIN graphs, l \in KernelLaunches,
        st \in DriverStatuses :
        \E deps \in SUBSET (1..graphs[g].nodes) :
           AddKernelNode(t, g, deps, l.threads, l.blocks, l.kernel, st)
  \/ \E t \in T, g \in DOMAIN graphs, dst \in Buffers, st \in DriverStatuses :
        \E deps \in SUBSET (1..graphs[g].nodes), src \in Buffers \ {dst} :
           AddMemcpyD2DNode(t, g, deps, dst, src, st)

InstantiateActions(T) ==
  \/ \E t \in T, g \in DOMAIN graphs, st \in DriverStatuses,
        dst \in DriverStatuses : InstantiateGpuGraph_Call(t, g, st, dst)
  \/ \E t \in T : InstantiateGpuGraph_NotifyAlive(t)
  \/ \E t \in T, dst \in DriverStatuses : InstantiateGpuGraph_Return(t, dst)

MoveActions(T) ==
  \E t \in T, o \in DOMAIN objs : Move(t, o)

DtorActions(T) ==
  \E t \in T, o \in DOMAIN objs, st \in DriverStatuses :
     OwnedGpuGraphExec_dtor(t, o, st)

ExecActions(T) ==
  \/ \E t \in T, o \in DOMAIN objs, g \in DOMAIN graphs,
        st \in DriverStatuses, result \in UpdateResults, dst \in DriverStatuses :
        Update(t, o, g, st, result, dst)
  \/ \E t \in T, o \in DOMAIN objs, s \in Streams, st \in DriverStatuses :
        Launch(t, o, s, st)

\* The whole program.
Next ==
  \/ CreateActions(Threads)
  \/ NodeActions(Threads)
  \/ CaptureActions(Threads)
  \/ InstantiateActions(Threads)
  \/ MoveActions(Threads)
  \/ DtorActions(Threads)
  \/ ExecActions(Threads)

Spec == Init /\ [][Next]_vars

\* Lifetime of executables and the allocation counters, several threads.
InitLife == Init /\ debug_dir = FALSE
NextLife ==
  \/ CreateActions(Threads)
  \/ InstantiateActions(Threads)
  \/ MoveActions(Threads)
  \/ DtorActions(Threads)

SpecLife == InitLife /\ [][NextLife]_vars

\* Graph construction and capture, several threads.
InitCapture == Init /\ vlog = 0
NextCapture ==
  \/ CreateActions(Threads)
  \/ CaptureActions(Threads)

SpecCapture == InitCapture /\ [][NextCapture]_vars

\* One caller capturing graphs and instantiating what it captured.
InitCaptured == Init /\ vlog = 0 /\ debug_dir = FALSE
NextCaptured ==
  \/ CaptureActions({1})
  \/ InstantiateActions({1})

SpecCaptured == InitCaptured /\ [][NextCaptured]_vars

\* One caller building one graph node by node.
InitBuild == Init /\ vlog = 0 /\ debug_dir = FALSE
NextBuild ==
  \/ \E st \in DriverStatuses : graphs = <<>> /\ CreateGpuGraph(1, st)
  \/ NodeActions({1})

SpecBuild == InitBuild /\ [][NextBuild]_vars

\* One caller thread driving executables: the caller serializes Launch and
\* Update of an instance.
InitExec == Init /\ debug_dir = FALSE
NextExec ==
  \/ CreateActions({1})
  \/ InstantiateActions({1})
  \/ DtorActions({1})
  \/ ExecActions({1})

SpecExec == InitExec /\ [][NextExec]_vars

\* ------------------------------------------------------------------ claims

AllIdle == \A t \in Threads : pc[t] = "idle"

\* executables that were instantiated and whose non-empty owner is not destroyed
LiveInstances ==
  {o \in DOMAIN objs : objs[o].live /\ objs[o].exec # NullHandle}

\* objects returned by successful InstantiateGpuGraph calls
Instantiated == {o \in DOMAIN objs : objs[o].origin = "instantiate"}

\* the destructor of object o runs in this step
Destroys(o) == objs[o].live /\ ~objs'[o].live

\* C1: once every call has returned, alive_gpu_graph_execs() is the number of
\* instantiated executables whose non-empty owner has not been destroyed.
C1_AliveIsLiveInstances ==
  (AllIdle /\ ~aborted) =>
     alive_gpu_graph_execs_ = Cardinality(LiveInstances)

\* C2: allocated_gpu_graph_execs() never decreases, equals the number of
\* successful InstantiateGpuGraph calls whenever no NotifyGraphExecCreated is
\* in progress, and is left alone by the destruction of executables.
C2_AllocatedCountsInstantiations ==
  /\ []((\A t \in Threads : pc[t] # "instantiate_allocated") =>
          allocated_gpu_graph_execs_ = Cardinality(Instantiated))
  /\ [][ULeq(allocated_gpu_graph_execs_, allocated_gpu_graph_execs_')]_vars
  /\ [][(\E o \in DOMAIN objs : Destroys(o)) =>
          allocated_gpu_graph_execs_' = allocated_gpu_graph_execs_]_vars

C2_Witness ==
  /\ AllIdle
  /\ allocated_gpu_graph_execs_ = 2
  /\ \E o \in Instantiated :
        /\ ~objs[o].live
        /\ objs[o].exec # NullHandle
        /\ execs[objs[o].exec].notified = 1

\* C3: alive <= allocated in every reachable state, the states between the
\* two fetch_add of NotifyGraphExecCreated included.
C3_AliveLeqAllocated ==
  ULeq(alive_gpu_graph_execs_, allocated_gpu_graph_execs_)

\* C4: destroying a moved-from (empty) OwnedGpuGraphExec leaves the alive
\* counter unchanged, and over all the owners one executable passes through
\* the alive counter is decremented at most once.
C4_EmptyOwnerNeverDecrements ==
  /\ [][\A o \in DOMAIN objs :
          (Destroys(o) /\ objs[o].exec = NullHandle) =>
             alive_gpu_graph_execs_' = alive_gpu_graph_execs_]_vars
  /\ [](\A e \in DOMAIN execs : execs[e].notified <= 1)

C4_Witness ==
  /\ vlog = VlogLifetime
  /\ \E o1, o2 \in DOMAIN objs :
       /\ objs[o1].origin = "instantiate" /\ objs[o1].exec = NullHandle
       /\ ~objs[o1].live
       /\ objs[o2].origin = "move" /\ objs[o2].exec # NullHandle
       /\ ~objs[o2].live
       /\ execs[objs[o2].exec].notified = 1

\* C5: a fresh executable has launch_count 0, and after n Launch calls with
\* no Update in between its launch_count is n.
C5_LaunchCountIsNumberOfLaunches ==
  \A o \in DOMAIN objs :
     (objs[o].exec # NullHandle /\ execs[objs[o].exec].updates = 0) =>
        objs[o].num_launches_ = execs[objs[o].exec].launches

\* C6: every Update sets launch_count to 0 and adds exactly 1 to update_count.
C6_UpdateResetsAndCounts ==
  [][\A o \in DOMAIN objs :
       (objs[o].exec # NullHandle /\
        execs'[objs[o].exec].updates = execs[objs[o].exec].updates + 1) =>
          /\ objs'[o].num_launches_ = 0
          /\ objs'[o].num_updates_ = objs[o].num_updates_ + 1]_vars

\* C7: once StreamBeginCapture succeeded, the capture body runs exactly once
\* and StreamEndCapture is called exactly once before CaptureGpuGraph
\* returns, whatever the body returned.
C7_EndCaptureAlwaysCalled ==
  /\ (ret.op = "CaptureGpuGraph" /\ ret.begin = OkStatus) =>
        (ret.body_calls = 1 /\ ret.end_calls = 1)
  /\ \A t \in Threads :
        /\ pc[t] = "capture_body" =>
              (capturing[frame[t].stream] /\ frame[t].body_calls = 0)
        /\ pc[t] = "capture_end" =>
              (frame[t].body_calls = 1 /\ frame[t].end_calls = 0)

C7_Witness ==
  /\ ret.op = "CaptureGpuGraph"
  /\ ret.begin = OkStatus
  /\ ret.body \in BodyErrors
  /\ ret.end_calls = 1

\* C8 (as stated): whenever the capture body fails, CaptureGpuGraph returns
\* an Internal error that includes the body's message, and no Owned Graph.
C8_BodyFailureIsInternal ==
  (ret.op = "CaptureGpuGraph" /\ ret.body \in BodyErrors) =>
     /\ ret.status.code = "Internal"
     /\ Includes(ret.status, ret.body.msg)
     /\ ret.graph = NullHandle

\* C8 (amended): whenever the capture body fails and StreamEndCapture then
\* succeeds, CaptureGpuGraph returns an Internal error that includes the
\* body's message, and no Owned Graph.
C8_BodyFailureIsInternalAfterEnd ==
  (ret.op = "CaptureGpuGraph" /\ ret.body \in BodyErrors
     /\ ret.end = OkStatus) =>
     /\ ret.status.code = "Internal"
     /\ Includes(ret.status, ret.body.msg)
     /\ ret.graph = NullHandle

C8_Witness ==
  /\ ret.op = "CaptureGpuGraph"
  /\ ret.body \in BodyErrors
  /\ ret.end = OkStatus
  /\ ret.status.code = "Internal"

\* C9: every graph handle the driver produced is destroyed exactly once:
\* never twice, and never left without an owner that will destroy it.
C9_EveryGraphHasOneDestroyer ==
  \A g \in DOMAIN graphs :
     /\ graphs[g].destroys <= 1
     /\ graphs[g].owner \in {"owned", "parameter", "none"}
     /\ (graphs[g].owner = "none") = (graphs[g].destroys = 1)

\* C10: any two executables returned by successful InstantiateGpuGraph calls
\* have distinct identities, also when the earlier one is already destroyed.
C10_DistinctIdentities ==
  \A o1, o2 \in Instantiated : o1 # o2 => objs[o1].id_ # objs[o2].id_

C10_Witness ==
  /\ vlog = VlogLifetime
  /\ \E o1, o2 \in Instantiated :
       /\ o1 < o2
       /\ ~objs[o1].live /\ objs[o1].exec # NullHandle
       /\ objs[o2].live

\* the executable handle e is launched / updated in this step
Launches(e) == execs'[e].launches # execs[e].launches
Updates(e) == execs'[e].updates # execs[e].updates

\* this step leaves both allocation counters alone
CountersUnchanged ==
  /\ allocated_gpu_graph_execs_' = allocated_gpu_graph_execs_
  /\ alive_gpu_graph_execs_' = alive_gpu_graph_execs_

\* C11: Update returns an Internal error whenever the driver's status is not
\* OK or its result is not success, and OK only when both are success; a
\* failed Update instantiates nothing and the executable keeps its handle
\* and identity.
C11_UpdateFailureIsInternalNoFallback ==
  /\ [](ret.op = "Update" =>
          /\ (ret.status = OkStatus) =
                (ret.driver = OkStatus /\ ret.result = "kSuccess")
          /\ ret.status # OkStatus => ret.status.code = "Internal")
  /\ [][\A o \in DOMAIN objs :
          (objs[o].exec # NullHandle /\ Updates(objs[o].exec)
             /\ ret'.status # OkStatus) =>
             /\ Len(execs') = Len(execs)
             /\ objs'[o].exec = objs[o].exec
             /\ objs'[o].id_ = objs[o].id_]_vars

C11_Witness ==
  /\ ret.op = "Update"
  /\ ret.driver = OkStatus
  /\ ret.result = "kTopologyChanged"
  /\ ret.status.code = "Internal"
  /\ objs[ret.obj].exec # NullHandle

\* C12: the graph passed to Update is consumed: once Update has returned,
\* with success or failure, its handle has been destroyed exactly once and
\* no caller owns it.
C12_UpdateConsumesGraph ==
  (ret.op = "Update" /\ ~aborted) =>
     /\ graphs[ret.graph].destroys = 1
     /\ graphs[ret.graph].owner = "none"

C12_Witness ==
  /\ ret.op = "Update"
  /\ ret.status # OkStatus
  /\ ~aborted
  /\ graphs[ret.graph].destroys = 1

\* C13: each Launch makes exactly one driver GraphLaunch call, on the
\* executable's handle and the given stream, and returns the driver's status
\* unchanged; a failed launch is not retried.
C13_LaunchIsOneDriverCall ==
  /\ [](ret.op = "Launch" =>
          /\ ret.driver_calls = 1
          /\ ret.status = ret.driver)
  /\ [][\A e \in DOMAIN execs :
          Launches(e) =>
             /\ execs'[e].launches = execs[e].launches + 1
             /\ ret'.op = "Launch"
             /\ objs[ret'.obj].exec = e
             /\ execs'[e].stream = ret'.stream
             /\ \A e2 \in DOMAIN execs \ {e} : ~Launches(e2)]_vars

C13_Witness ==
  /\ ret.op = "Launch"
  /\ ret.driver \in DriverErrors
  /\ execs[objs[ret.obj].exec].launches = 1

\* owners of a non-empty executable that have been destroyed
DestroyedInstances ==
  {o \in DOMAIN objs : ~objs[o].live /\ objs[o].exec # NullHandle}

\* C14: the counters lose no update: once k successful instantiations and d
\* destructions of non-empty executables by several threads have completed,
\* allocated has grown by k and alive by k - d.
C14_NoLostCounterUpdate ==
  (AllIdle /\ ~aborted) =>
     /\ allocated_gpu_graph_execs_ = Cardinality(Instantiated)
     /\ alive_gpu_graph_execs_ =
           Cardinality(Instantiated) - Cardinality(DestroyedInstances)

\* C15: a failed destroy-graph or destroy-executable-graph driver call during
\* the destruction of an owner ends in the fatal abort: the program takes no
\* step after it.
C15_DestroyFailureIsFatal ==
  /\ []((\E g \in DOMAIN graphs : graphs[g].failed) => aborted)
  /\ []((\E e \in DOMAIN execs : execs[e].failed) => aborted)
  /\ [][~aborted]_vars

C15_Witness ==
  /\ aborted
  /\ \E g \in DOMAIN graphs : graphs[g].failed
  /\ ret.op = "~OwnedGpuGraph"

\* C16: a failed driver instantiation returns the driver's error and no
\* executable, leaves allocated and alive unchanged, and the input graph is
\* still consumed and destroyed.
C16_FailedInstantiateCountsNothing ==
  /\ []((ret.op = "InstantiateGpuGraph" /\ ret.driver # OkStatus) =>
          /\ ret.status = ret.driver
          /\ ret.obj = 0
          /\ ~aborted => (/\ graphs[ret.graph].destroys = 1
                          /\ graphs[ret.graph].owner = "none"))
  /\ [][(ret'.op = "InstantiateGpuGraph" /\ ret'.driver # OkStatus
           /\ graphs'[ret'.graph] # graphs[ret'.graph]) =>
          (CountersUnchanged /\ objs' = objs /\ execs' = execs)]_vars

C16_Witness ==
  /\ ret.op = "InstantiateGpuGraph"
  /\ ret.driver \in DriverErrors
  /\ ~aborted
  /\ allocated_gpu_graph_execs_ = 1
  /\ graphs[ret.graph].destroys = 1

CaptureSucceeded ==
  /\ ret.op = "CaptureGpuGraph"
  /\ ret.begin = OkStatus /\ ret.body = OkStatus /\ ret.end = OkStatus

\* C17: with the debug directory configured, neither a failure to create a
\* unique file name nor a failure of the driver's dot export changes the
\* result of CaptureGpuGraph: when begin, body and end succeeded it returns
\* the Owned Graph wrapping the handle StreamEndCapture produced.
C17_DebugDumpFailureIsIgnored ==
  /\ []((CaptureSucceeded /\ debug_dir) =>
          /\ ret.status = OkStatus
          /\ ret.graph # NullHandle
          /\ graphs[ret.graph].owner # "dropped")
  /\ [][(ret'.op = "CaptureGpuGraph" /\ Len(graphs') # Len(graphs)
           /\ ret'.body = OkStatus /\ debug_dir) =>
          /\ ret'.graph = Len(graphs')
          /\ graphs'[ret'.graph].owner = "owned"]_vars

C17_Witness ==
  /\ CaptureSucceeded /\ debug_dir
  /\ ret.unique /\ ret.printed \in DriverErrors
  /\ ret.status = OkStatus /\ graphs[ret.graph].owner = "owned"

\* C18: the debug dot export is attempted for a capture if and only if the
\* debug directory is set, begin capture, the body and end capture all
\* succeeded and a unique file name was created; it is attempted at most once.
C18_DotExportIffSuccessfulCapture ==
  ret.op = "CaptureGpuGraph" =>
     /\ ret.dot_calls \in {0, 1}
     /\ (ret.dot_calls = 1) = (debug_dir /\ CaptureSucceeded /\ ret.unique)
     /\ (ret.printed # NoStatus) = (ret.dot_calls = 1)

C18_Witness ==
  /\ ret.op = "CaptureGpuGraph" /\ ret.dot_calls = 1
  /\ debug_dir /\ ret.unique /\ ret.printed = OkStatus

\* C19: a capture whose body issues no operation and returns success yields
\* an Owned Graph, not an error, when begin and end capture succeed, and
\* InstantiateGpuGraph treats that graph like any other: its outcome is the
\* driver's.
C19_EmptyCaptureIsInstantiable ==
  /\ (CaptureSucceeded /\ ret.ops = 0) =>
        /\ ret.status = OkStatus
        /\ ret.graph # NullHandle
        /\ graphs[ret.graph].owner # "dropped"
        /\ graphs[ret.graph].nodes = 0
  /\ (ret.op = "InstantiateGpuGraph" /\ graphs[ret.graph].nodes = 0) =>
        /\ ret.status = ret.driver
        /\ (ret.status = OkStatus) = (ret.obj # 0)

C19_Witness ==
  /\ ret.op = "InstantiateGpuGraph" /\ ret.status = OkStatus
  /\ graphs[ret.graph].nodes = 0
  /\ objs[ret.obj].exec # NullHandle /\ objs[ret.obj].live
  /\ \E g \in DOMAIN graphs : graphs[g].nodes > 0

\* C20: Update and Launch never replace the executable: across every Launch
\* and Update step the owner's handle and identity stay what they were, no
\* executable is instantiated or destroyed, and the allocation counters do
\* not change.
C20_UpdateLaunchKeepExecutable ==
  [][\A o \in DOMAIN objs :
       (objs[o].exec # NullHandle
          /\ (Launches(objs[o].exec) \/ Updates(objs[o].exec))) =>
         /\ objs'[o].exec = objs[o].exec
         /\ objs'[o].id_ = objs[o].id_
         /\ Len(execs') = Len(execs)
         /\ \A e \in DOMAIN execs : execs'[e].destroys = execs[e].destroys
         /\ CountersUnchanged]_vars

C20_Witness ==
  /\ ret.op = "Launch"
  /\ \E e \in DOMAIN execs :
        /\ execs[e].updates >= 1 /\ execs[e].launches >= 2
        /\ execs[e].destroys = 0
        /\ objs[ret.obj].exec = e

\* C21: IsStreamCapturing is a pure read: a call changes neither the
\* allocation counters, nor any executable's launch/update counters, nor the
\* stream's capture mode, nor anything else of this core, and it returns the
\* driver's answer about the stream.
C21_IsStreamCapturingIsPure ==
  [][(ret'.op = "IsStreamCapturing" /\ pc' = pc) =>
       /\ CountersUnchanged
       /\ UNCHANGED <<execs, objs, graphs, capturing, frame, aborted>>
       /\ ret'.status = ret'.driver
       /\ ret'.value = (ret'.driver = OkStatus /\ capturing[ret'.stream])]_vars

C21_Witness ==
  /\ ret.op = "IsStreamCapturing" /\ ret.status = OkStatus /\ ret.value
  /\ capturing[ret.stream]
  /\ \E t \in Threads : pc[t] = "capture_end"

\* C22: the alive counter never goes below zero (the unsigned word never
\* wraps): every decrement by NotifyGraphExecDestroyed belongs to a distinct
\* executable, whose NotifyGraphExecCreated increment came before.
C22_AliveNeverWraps ==
  /\ alive_gpu_graph_execs_ >= 0
  /\ \A e \in DOMAIN execs : execs[e].notified <= 1
  /\ Cardinality({e \in DOMAIN execs : execs[e].notified = 1})
        <= Cardinality(Instantiated)

C22_Witness ==
  /\ alive_gpu_graph_execs_ = 0
  /\ \E e \in DOMAIN execs : execs[e].notified = 1
  /\ \E o \in DOMAIN objs : ~objs[o].live /\ objs[o].exec = NullHandle

\* the edges that end in node n of graph g
EdgesInto(g, n) == {e \in graphs[g].edges : e[2] = n}

\* C23: AddKernelNode hands the driver exactly the caller's graph,
\* dependency set, kernel function handle and launch dimensions, the new
\* node gets no edge besides those from the given dependencies, and the
\* result is the driver's node handle on success and the driver's error
\* unchanged on failure.
C23_AddKernelNodePassesArguments ==
  /\ [](ret.op = "AddKernelNode" =>
          /\ ret.call.graph = ret.args.graph
          /\ ret.call.deps = ret.args.deps
          /\ ret.call.func = AsGpuFunctionHandle(ret.args.kernel)
          /\ ret.call.grid = ret.args.blocks
          /\ ret.call.block = ret.args.threads
          /\ ret.status = ret.driver
          /\ (ret.status = OkStatus) = (ret.node # 0)
          /\ ret.node # 0 =>
                EdgesInto(ret.graph, ret.node)
                   = {<<d, ret.node>> : d \in ret.args.deps})
  /\ [][(ret'.op = "AddKernelNode" /\ graphs' # graphs) =>
          /\ ret'.node = graphs[ret'.graph].nodes + 1
          /\ graphs'[ret'.graph].nodes = ret'.node
          /\ graphs'[ret'.graph].edges \ graphs[ret'.graph].edges
                = {<<d, ret'.node>> : d \in ret'.args.deps}
          /\ \A g \in DOMAIN graphs \ {ret'.graph} : graphs'[g] = graphs[g]]_vars

C23_Witness ==
  /\ ret.op = "AddKernelNode" /\ ret.status = OkStatus
  /\ ret.node = 2 /\ ret.args.deps = {}
  /\ ret.args.threads # ret.args.blocks
  /\ graphs[ret.graph].edges = {}

\* C25: the alive counter, launch_count and update_count after a sequence
\* of instantiate, launch, update and destroy operations do not depend on
\* the verbose-logging level: they are the values the sequence alone
\* determines (the ones a run with the VLOG statements enabled ends with),
\* whatever the level.
C25_CountersIndependentOfVlog ==
  (AllIdle /\ ~aborted) =>
     /\ alive_gpu_graph_execs_ =
           Cardinality(Instantiated) - Cardinality(DestroyedInstances)
     /\ \A o \in DOMAIN objs : objs[o].exec # NullHandle =>
           /\ objs[o].num_updates_ = execs[objs[o].exec].updates
           /\ execs[objs[o].exec].updates = 0 =>
                 objs[o].num_launches_ = execs[objs[o].exec].launches

\* C26: when StreamBeginCapture fails, CaptureGpuGraph returns that driver
\* error and no graph; the capture body is not invoked, StreamEndCapture is
\* not called and no debug dump is attempted.
C26_BeginFailureReturnsAtOnce ==
  /\ []((ret.op = "CaptureGpuGraph" /\ ret.begin # OkStatus) =>
          /\ ret.status = ret.begin
          /\ ret.graph = NullHandle
          /\ ret.body_calls = 0 /\ ret.body = NoStatus
          /\ ret.end_calls = 0 /\ ret.end = NoStatus
          /\ ret.dot_calls = 0)
  /\ [][(ret'.op = "CaptureGpuGraph" /\ ret'.begin # OkStatus /\ ret' # ret) =>
          UNCHANGED <<graphs, capturing, pc, frame>>]_vars

C26_Witness ==
  /\ ret.op = "CaptureGpuGraph" /\ ret.begin \in DriverErrors
  /\ ret.status = ret.begin
  /\ debug_dir /\ ~capturing[ret.stream]

\* C27: when StreamEndCapture fails, CaptureGpuGraph returns the driver's
\* end-capture error and no Owned Graph, whatever the capture body returned:
\* the body's failure is reported only when end capture succeeded.
C27_EndFailureWinsOverBody ==
  /\ (ret.op = "CaptureGpuGraph" /\ ret.end \in DriverErrors) =>
        /\ ret.status = ret.end
        /\ ret.graph = NullHandle
        /\ ret.dot_calls = 0
  /\ (ret.op = "CaptureGpuGraph" /\ ret.body \in BodyErrors
        /\ ret.status = InternalError("failed to capture gpu graph: ",
                                      ret.body.msg)) =>
        ret.end = OkStatus

C27_Witness ==
  /\ ret.op = "CaptureGpuGraph"
  /\ ret.body \in BodyErrors /\ ret.end \in DriverErrors
  /\ ret.status = ret.end /\ ret.body_calls = 1

\* C28: the counter effects of Launch and Update are not rolled back on
\* failure: a Launch whose driver call fails still adds one to launch_count,
\* and an Update that returns an Internal error still leaves launch_count at
\* 0 and update_count one higher than before.
C28_FailedCallsStillCount ==
  [][\A o \in DOMAIN objs :
       (objs[o].exec # NullHandle /\ ret'.status # OkStatus) =>
          /\ Launches(objs[o].exec) =>
                objs'[o].num_launches_ = objs[o].num_launches_ + 1
          /\ Updates(objs[o].exec) =>
                /\ ret'.status.code = "Internal"
                /\ objs'[o].num_launches_ = 0
                /\ objs'[o].num_updates_ = objs[o].num_updates_ + 1]_vars

\* C29: when CreateGpuGraph's driver call fails the driver's error is
\* returned unchanged and no Owned Graph is produced, so there is nothing a
\* destroy-graph call could be made for; when it succeeds the returned Owned
\* Graph owns exactly the handle the driver produced.
C29_CreateGpuGraphOwnsDriverHandle ==
  /\ [](ret.op = "CreateGpuGraph" =>
          /\ ret.status = ret.driver
          /\ (ret.driver = OkStatus) = (ret.graph # NullHandle))
  /\ [][(ret'.op = "CreateGpuGraph" /\ ret' # ret) =>
          IF ret'.driver = OkStatus
          THEN /\ Len(graphs') = Len(graphs) + 1
               /\ ret'.graph = Len(graphs')
               /\ graphs'[ret'.graph].owner = "owned"
               /\ graphs'[ret'.graph].destroys = 0
               /\ \A g \in DOMAIN graphs : graphs'[g] = graphs[g]
          ELSE graphs' = graphs]_vars

C29_Witness ==
  /\ ret.op = "CreateGpuGraph" /\ ret.driver \in DriverErrors
  /\ ret.status = ret.driver /\ ret.graph = NullHandle
  /\ \E g \in DOMAIN graphs : graphs[g].owner = "owned"

\* C30: the identity of an executable is the value the allocated counter
\* had immediately before that instantiation's increment: sequential
\* instantiations from zeroed counters get 0, 1, 2, ... in instantiation
\* order, and an identity is always strictly less than the allocated counter.
C30_IdentityIsAllocatedBefore ==
  /\ [](\A o \in Instantiated :
          /\ objs[o].id_ = Cardinality({p \in Instantiated : p < o})
          /\ objs[o].id_ < allocated_gpu_graph_execs_)
  /\ [][Len(objs') > Len(objs) =>
          LET o == Len(objs')
          IN  objs'[o].origin = "instantiate" =>
                 /\ objs'[o].id_ = allocated_gpu_graph_execs_
                 /\ allocated_gpu_graph_execs_' = objs'[o].id_ + 1]_vars

C30_Witness ==
  /\ Cardinality(Instantiated) >= 2
  /\ \E o \in Instantiated : objs[o].id_ = 1 /\ objs[o].live
  /\ \E o \in Instantiated : objs[o].id_ = 0 /\ ~objs[o].live
  /\ allocated_gpu_graph_execs_ = 2

\* C31: NotifyGraphExecDestroyed returns the alive count as it is right
\* after its own decrement, the previous value minus one: the value equals
\* alive_gpu_graph_execs() read after the call when no other counter
\* operation comes in between.
C31_DestroyedReturnsAliveAfter ==
  [][(ret'.op = "~OwnedGpuGraphExec" /\ ret'.notify_calls = 1
        /\ objs' # objs) =>
       /\ ret'.alive = alive_gpu_graph_execs_ - 1
       /\ ret'.alive = alive_gpu_graph_execs_']_vars

C31_Witness ==
  /\ ret.op = "~OwnedGpuGraphExec" /\ ret.notify_calls = 1
  /\ ret.alive = 1 /\ alive_gpu_graph_execs_ = 1
  /\ Cardinality(LiveInstances) = 1

====
